---- MODULE Spec2Model ----
(***************************************************************************)
(* Model of orcamentosystem.py: the dropdown-source resolver               *)
(* (get_dropdown_values and its helpers), the number parsing/formatting    *)
(* helpers, and the OrcamentoApp form with its Calculate cycle.            *)
(*                                                                         *)
(* Text is modelled as a sequence of one-character strings, so that the    *)
(* string operations of the code (strip, split, replace, lower, "in")      *)
(* are computed and not assumed.                                           *)
(***************************************************************************)
EXTENDS Integers, Sequences, FiniteSets, TLC

(* ------------------------------------------------------------------ *)
(* Bounds of the model                                                 *)
(* ------------------------------------------------------------------ *)

\* longest corner (column letters and row digits) of an enumerated range string
MaxCornerLen == 2
\* longest inline-list formula enumerated for get_dropdown_values
MaxListLen == 5
\* most validation rules on the sheet handed to get_dropdown_values
MaxRules == 2
\* Calculate invocations followed in one run of the form
MaxCalc == 2

(* ------------------------------------------------------------------ *)
(* Python values and string primitives                                 *)
(* ------------------------------------------------------------------ *)

\* Python's None
None == [t |-> "none"]

Str(s) == [t |-> "str", s |-> s]

\* a number, held exactly in hundredths
Num(c) == [t |-> "num", cents |-> c]

Digits == <<"0", "1", "2", "3", "4", "5", "6", "7", "8", "9">>

IsDigit(c) == \E i \in 1..10 : Digits[i] = c

DigitVal(c) == (CHOOSE i \in 1..10 : Digits[i] = c) - 1

Upper == <<"A", "B", "C", "D", "E", "F", "G", "H", "I", "J", "K", "L", "M",
          "N", "O", "P", "Q", "R", "S", "T", "U", "V", "W", "X", "Y", "Z">>

Lower == <<"a", "b", "c", "d", "e", "f", "g", "h", "i", "j", "k", "l", "m",
          "n", "o", "p", "q", "r", "s", "t", "u", "v", "w", "x", "y", "z">>

IsLetter(c) == \E i \in 1..26 : Upper[i] = c \/ Lower[i] = c

\* 1 for "A" or "a", ..., 26 for "Z" or "z"
LetterVal(c) == CHOOSE i \in 1..26 : Upper[i] = c \/ Lower[i] = c

\* str.lower() on one character
LowerChar(c) ==
  IF \E i \in 1..26 : Upper[i] = c
  THEN Lower[CHOOSE i \in 1..26 : Upper[i] = c]
  ELSE c

\* str.lower()
StrLower(s) == [i \in 1..Len(s) |-> LowerChar(s[i])]

\* s[a-1:b] of Python, 1-based and inclusive here
Slice(s, a, b) == IF a > b THEN <<>> ELSE SubSeq(s, a, b)

\* sub in s
Contains(s, sub) ==
  \E i \in 1..(Len(s) - Len(sub) + 1) : Slice(s, i, i + Len(sub) - 1) = sub

HasChar(s, c) == \E i \in 1..Len(s) : s[i] = c

\* s.startswith(c) and s.endswith(c) for a one-character c
StartsWith(s, c) == Len(s) >= 1 /\ s[1] = c

EndsWith(s, c) == Len(s) >= 1 /\ s[Len(s)] = c

\* s.strip(c): every leading and every trailing occurrence of c is removed
StripChar(s, c) ==
  IF \A i \in 1..Len(s) : s[i] = c
  THEN <<>>
  ELSE LET a == CHOOSE i \in 1..Len(s) :
                  s[i] # c /\ \A j \in 1..(i - 1) : s[j] = c
           b == CHOOSE i \in 1..Len(s) :
                  s[i] # c /\ \A j \in (i + 1)..Len(s) : s[j] = c
       IN  SubSeq(s, a, b)

\* s.strip(): whitespace is the space character in this model
Strip(s) == StripChar(s, " ")

\* s.replace(c, "")
RECURSIVE RemoveChar(_, _)
RemoveChar(s, c) ==
  IF s = <<>> THEN <<>>
  ELSE IF Head(s) = c THEN RemoveChar(Tail(s), c)
  ELSE <<Head(s)>> \o RemoveChar(Tail(s), c)

\* s.replace(c, d) for one-character c and d
ReplaceChar(s, c, d) == [i \in 1..Len(s) |-> IF s[i] = c THEN d ELSE s[i]]

\* position of the first c in s, 0 when there is none
FirstIndex(s, c) ==
  IF HasChar(s, c)
  THEN CHOOSE i \in 1..Len(s) : s[i] = c /\ \A j \in 1..(i - 1) : s[j] # c
  ELSE 0

\* s.split(c): every piece, the empty ones included
RECURSIVE Split(_, _)
Split(s, c) ==
  LET i == FirstIndex(s, c)
  IN  IF i = 0 THEN <<s>>
      ELSE <<Slice(s, 1, i - 1)>> \o Split(Slice(s, i + 1, Len(s)), c)

\* s.split(c, 1)
SplitFirst(s, c) ==
  LET i == FirstIndex(s, c)
  IN  IF i = 0 THEN <<s>>
      ELSE <<Slice(s, 1, i - 1), Slice(s, i + 1, Len(s))>>

\* all sequences over alphabet A of length at most n
SeqsUpTo(A, n) == UNION {[1..k -> A] : k \in 0..n}

(* ------------------------------------------------------------------ *)
(* Numbers as text: int(), float(), str() and the "," ".2f" format     *)
(* ------------------------------------------------------------------ *)

IntVal(n) == [t |-> "int", n |-> n]

AllDigits(s) == \A i \in 1..Len(s) : IsDigit(s[i])

\* value of a run of decimal digits (0 for the empty run)
RECURSIVE DigitsVal(_)
DigitsVal(s) ==
  IF s = <<>> THEN 0
  ELSE 10 * DigitsVal(SubSeq(s, 1, Len(s) - 1)) + DigitVal(s[Len(s)])

\* decimal digits of n >= 0
RECURSIVE NatStr(_)
NatStr(n) ==
  IF n < 10 THEN <<Digits[n + 1]>>
  ELSE NatStr(n \div 10) \o <<Digits[(n % 10) + 1]>>

\* text without one leading sign
Unsigned(s) == IF StartsWith(s, "-") \/ StartsWith(s, "+") THEN Tail(s) ELSE s

Signed(s, mag) == IF StartsWith(s, "-") THEN 0 - mag ELSE mag

\* int(s) for stripped s: one sign is accepted, then digits only.
\* The result is [ok |-> FALSE] where Python raises ValueError.
int_of(s) ==
  IF Unsigned(s) # <<>> /\ AllDigits(Unsigned(s))
  THEN [ok |-> TRUE, n |-> Signed(s, DigitsVal(Unsigned(s)))]
  ELSE [ok |-> FALSE, n |-> 0]

\* int(text): surrounding blanks are accepted
PyInt(text) == int_of(Strip(text))

\* a decimal literal split at its points: s is the stripped text, parts its pieces
float_of(s, parts) ==
  IF /\ Len(parts) <= 2
     /\ \A i \in 1..Len(parts) : AllDigits(parts[i])
     /\ \E i \in 1..Len(parts) : parts[i] # <<>>
  THEN [ok    |-> TRUE,
        cents |-> Signed(s, 100 * DigitsVal(parts[1])
                            + (IF Len(parts) = 2
                               THEN DigitsVal(SubSeq(parts[2] \o <<"0", "0">>, 1, 2))
                               ELSE 0))]
  ELSE [ok |-> FALSE, cents |-> 0]

\* float(text) in hundredths, for decimal literals with at most two
\* fractional digits (the texts of this model); [ok |-> FALSE] where Python
\* raises ValueError: no digit, a second point, or any other character.
PyFloat(text) == float_of(Strip(text), Split(Unsigned(Strip(text)), "."))

\* the digits of n >= 0 with a "," before every group of three
RECURSIVE Grouped(_)
Grouped(n) ==
  IF n < 1000 THEN NatStr(n)
  ELSE LET r == n % 1000
           g == <<Digits[(r \div 100) + 1], Digits[((r \div 10) % 10) + 1],
                  Digits[(r % 10) + 1]>>
       IN  Grouped(n \div 1000) \o <<",">> \o g

Abs(n) == IF n < 0 THEN 0 - n ELSE n

\* f"{number:,.2f}" for a number held in hundredths
FormatCommaFixed2(cents) ==
  (IF cents < 0 THEN <<"-">> ELSE <<>>)
  \o Grouped(Abs(cents) \div 100)
  \o <<".", Digits[((Abs(cents) % 100) \div 10) + 1], Digits[(Abs(cents) % 10) + 1]>>

\* str(value) of a cell value that is not None
ValueStr(v) ==
  CASE v.t = "str" -> v.s
    [] v.t = "formula" -> v.s
    [] v.t = "int" -> (IF v.n < 0 THEN <<"-">> ELSE <<>>) \o NatStr(Abs(v.n))
    [] v.t = "num" ->
         (IF v.cents < 0 THEN <<"-">> ELSE <<>>)
         \o NatStr(Abs(v.cents) \div 100)
         \o <<".", Digits[((Abs(v.cents) % 100) \div 10) + 1]>>
         \o (IF Abs(v.cents) % 10 = 0 THEN <<>> ELSE <<Digits[(Abs(v.cents) % 10) + 1]>>)

(* ------------------------------------------------------------------ *)
(* format_brl, parse_float, parse_int                                  *)
(* ------------------------------------------------------------------ *)

\* float(value) of format_brl in hundredths, 0 where it raises
brl_float(r) == IF r.ok THEN r.cents ELSE 0

\* format_brl(value): the number in hundredths that gets formatted
brl_number(value) ==
  CASE value.t = "none" -> 0
    [] value.t = "num"  -> value.cents
    [] value.t = "int"  -> 100 * value.n
    [] value.t = "str"  -> brl_float(PyFloat(value.s))
    [] value.t = "formula" -> brl_float(PyFloat(value.s))

format_brl(value) ==
  <<"R", "$", " ">>
  \o ReplaceChar(ReplaceChar(ReplaceChar(FormatCommaFixed2(brl_number(value)),
                                         ",", "X"), ".", ","), "X", ".")

parse_float_of(r) == IF r.ok THEN Num(r.cents) ELSE Num(0)

parse_float(text) ==
  parse_float_of(PyFloat(ReplaceChar(RemoveChar(Strip(text), "."), ",", ".")))

parse_int_of(r) == IF r.ok THEN IntVal(r.n) ELSE IntVal(0)

parse_int(text) == parse_int_of(PyInt(Strip(text)))

(* ------------------------------------------------------------------ *)
(* Workbooks                                                           *)
(*                                                                     *)
(* A workbook file holds, per cell, the formula text (or None) and the *)
(* value last stored for it (the cached result, for a formula cell).   *)
(* A sheet stores only its non-empty cells, keyed <<row, column>>.     *)
(* ------------------------------------------------------------------ *)

\* a formula as a loaded cell reports it when formulas are kept
FormulaVal(s) == [t |-> "formula", s |-> s]

Const(v) == [f |-> None, v |-> v]

Formula(f, cached) == [f |-> Str(f), v |-> cached]

\* load_workbook(path, data_only): the value each stored cell reports
LoadCell(c, data_only) == IF data_only \/ c.f = None THEN c.v ELSE FormulaVal(c.f.s)

LoadSheet(sh, data_only) ==
  [cells       |-> [k \in {k \in DOMAIN sh.cells : LoadCell(sh.cells[k], data_only) # None}
                      |-> LoadCell(sh.cells[k], data_only)],
   validations |-> sh.validations]

load_workbook(file, data_only) ==
  [sheetnames |-> file.sheetnames,
   active     |-> file.active,
   sheets     |-> [i \in DOMAIN file.sheets |-> LoadSheet(file.sheets[i], data_only)]]

\* ws[coordinate].value of a loaded sheet
CellValue(ws, k) == IF k \in DOMAIN ws.cells THEN ws.cells[k] ELSE None

SetMax(S) == CHOOSE x \in S : \A y \in S : y <= x

\* ws.max_row and ws.max_column
MaxRow(ws) == IF DOMAIN ws.cells = {} THEN 1 ELSE SetMax({k[1] : k \in DOMAIN ws.cells})

MaxColumn(ws) == IF DOMAIN ws.cells = {} THEN 1 ELSE SetMax({k[2] : k \in DOMAIN ws.cells})

(* ------------------------------------------------------------------ *)
(* range_boundaries and cell ranges                                    *)
(* ------------------------------------------------------------------ *)

\* length of the run of letters (or digits) of s that starts at position p
LetterRun(s, p) ==
  CHOOSE k \in 0..(Len(s) - p + 1) :
    /\ \A j \in p..(p + k - 1) : IsLetter(s[j])
    /\ (p + k > Len(s) \/ ~IsLetter(s[p + k]))

DigitRun(s, p) ==
  CHOOSE k \in 0..(Len(s) - p + 1) :
    /\ \A j \in p..(p + k - 1) : IsDigit(s[j])
    /\ (p + k > Len(s) \/ ~IsDigit(s[p + k]))

\* position p, or the one after it when s has "$" at p
SkipDollar(s, p) == IF p <= Len(s) /\ s[p] = "$" THEN p + 1 ELSE p

\* one corner of a range, [$]?[A-Za-z]{1,3}?[$]?[0-9]*: its letters are
\* s[q1..q2-1] and its digits s[q3..q4-1]
Corner(s, q1, q2, q3, q4) ==
  [ok   |-> q2 - q1 <= 3,
   col  |-> Slice(s, q1, q2 - 1),
   row  |-> Slice(s, q3, q4 - 1),
   next |-> q4]

CornerDigits(s, q1, q2, q3) == Corner(s, q1, q2, q3, q3 + DigitRun(s, q3))

CornerLetters(s, q1, q2) == CornerDigits(s, q1, q2, SkipDollar(s, q2))

\* the corner of s that starts at position p
ParseCorner(s, p) ==
  CornerLetters(s, SkipDollar(s, p), SkipDollar(s, p) + LetterRun(s, SkipDollar(s, p)))

\* column_index_from_string
RECURSIVE column_index_from_string(_)
column_index_from_string(col) ==
  IF col = <<>> THEN 0
  ELSE 26 * column_index_from_string(SubSeq(col, 1, Len(col) - 1)) + LetterVal(col[Len(col)])

RangeError == [ok |-> FALSE, min_col |-> 0, min_row |-> 0, max_col |-> 0, max_row |-> 0]

NoCorner(p) == [ok |-> TRUE, col |-> <<>>, row |-> <<>>, next |-> p]

\* the boundaries of the corners a and b, b being NoCorner without a ":"
\* (sep); with a ":", both corners give columns and rows, or only columns,
\* or only rows
boundaries_of(s, a, sep, b) ==
  IF ~a.ok \/ ~b.ok \/ b.next # Len(s) + 1 THEN RangeError
  ELSE IF sep /\ ~(\/ a.col # <<>> /\ b.col # <<>> /\ a.row # <<>> /\ b.row # <<>>
                   \/ a.col # <<>> /\ b.col # <<>> /\ a.row = <<>> /\ b.row = <<>>
                   \/ a.row # <<>> /\ b.row # <<>> /\ a.col = <<>> /\ b.col = <<>>)
  THEN RangeError
  ELSE [ok      |-> TRUE,
        min_col |-> column_index_from_string(a.col),
        min_row |-> DigitsVal(a.row),
        max_col |-> column_index_from_string(IF b.col # <<>> THEN b.col ELSE a.col),
        max_row |-> DigitsVal(IF b.row # <<>> THEN b.row ELSE a.row)]

second_corner(s, a, sep) ==
  boundaries_of(s, a, sep, IF sep THEN ParseCorner(s, a.next + 1) ELSE NoCorner(a.next))

first_corner(s, a) == second_corner(s, a, a.ok /\ a.next <= Len(s) /\ s[a.next] = ":")

\* range_boundaries(range_string): [ok |-> FALSE] where it raises ValueError;
\* a part that is None is 0 here
range_boundaries(s) == first_corner(s, ParseCorner(s, 1))

\* "cell in rng" for a range of a rule's sqref
InRange(cell, rng) ==
  /\ rng.min_row <= cell[1] /\ cell[1] <= rng.max_row
  /\ rng.min_col <= cell[2] /\ cell[2] <= rng.max_col

(* ------------------------------------------------------------------ *)
(* The dropdown-source resolver                                        *)
(* ------------------------------------------------------------------ *)

cell_in_sqref(cell, sqref) == \E i \in 1..Len(sqref) : InRange(cell, sqref[i])

\* normalize_sheet_name without the unquoting
normalize_sheet_name_keep_quotes(name) == Strip(name)

unquote(n) == IF StartsWith(n, "'") /\ EndsWith(n, "'") THEN Slice(n, 2, Len(n) - 1) ELSE n

normalize_sheet_name(name) == unquote(Strip(name))

\* the rows r1..r2 and columns c1..c2, row by row
row_major(r1, r2, c1, c2) ==
  IF r2 < r1 \/ c2 < c1 THEN <<>>
  ELSE [i \in 1..((r2 - r1 + 1) * (c2 - c1 + 1)) |->
          <<r1 + ((i - 1) \div (c2 - c1 + 1)), c1 + ((i - 1) % (c2 - c1 + 1))>>]

\* ws.iter_rows(min_row, max_row, min_col, max_col): the coordinates visited,
\* row by row; a bound that is None or 0 falls back to 1 or to the sheet's extent
iter_rows(ws, min_row, max_row, min_col, max_col) ==
  row_major(IF min_row = 0 THEN 1 ELSE min_row,
            IF max_row = 0 THEN MaxRow(ws) ELSE max_row,
            IF min_col = 0 THEN 1 ELSE min_col,
            IF max_col = 0 THEN MaxColumn(ws) ELSE max_col)

\* str(cell.value) of the cells kept
cell_texts(ws, kept) == [i \in 1..Len(kept) |-> ValueStr(CellValue(ws, kept[i]))]

\* the loop of values_from_range over the visited cells
collect_values(ws, cells) ==
  cell_texts(ws, SelectSeq(cells, LAMBDA k : CellValue(ws, k) # None))

values_in(ws, rb) ==
  IF ~rb.ok THEN <<>>
  ELSE collect_values(ws, iter_rows(ws, rb.min_row, rb.max_row, rb.min_col, rb.max_col))

values_from_range(ws, cell_range) == values_in(ws, range_boundaries(cell_range))

\* the items of the comprehension that are kept
RECURSIVE strip_items(_)
strip_items(items) ==
  IF items = <<>> THEN <<>>
  ELSE IF Strip(Head(items)) # <<>>
  THEN <<Strip(Head(items))>> \o strip_items(Tail(items))
  ELSE strip_items(Tail(items))

\* [item.strip() for item in cleaned.split(",") if item.strip()]
\* the comprehension without its "if item.strip()" filter
SplitItems_keep_empty(cleaned) ==
  [i \in 1..Len(Split(cleaned, ",")) |-> Strip(Split(cleaned, ",")[i])]

SplitItems(cleaned) == strip_items(Split(cleaned, ","))

\* index in wb.sheetnames of the sheet called name, 0 when there is none
SheetIndex(wb, name) ==
  IF \E i \in 1..Len(wb.sheetnames) : wb.sheetnames[i] = name
  THEN CHOOSE i \in 1..Len(wb.sheetnames) : wb.sheetnames[i] = name
  ELSE 0

\* ws.parent[sheet_name] if sheet_name in ws.parent.sheetnames else ws
target_sheet(wb, si, ti) == IF ti # 0 THEN wb.sheets[ti] ELSE wb.sheets[si]

\* the "!" branch: parts is formula.split("!", 1)
cross_sheet(wb, si, parts) ==
  values_from_range(target_sheet(wb, si, SheetIndex(wb, normalize_sheet_name(parts[1]))),
                    RemoveChar(parts[2], "$"))

\* the last branch: a literal, or a list after all
literal(cleaned) ==
  IF HasChar(cleaned, ",") THEN SplitItems(cleaned)
  ELSE IF cleaned # <<>> THEN <<cleaned>> ELSE <<>>

\* the branches on the formula, its leading "=" removed
classify(wb, si, formula) ==
  IF /\ HasChar(formula, ",") /\ ~HasChar(formula, "!")
     /\ ~HasChar(formula, ":") /\ ~StartsWith(formula, "$")
  THEN SplitItems(StripChar(Strip(formula), "\""))
  ELSE IF HasChar(formula, "!") THEN cross_sheet(wb, si, SplitFirst(formula, "!"))
  ELSE IF HasChar(formula, ":")
  THEN values_from_range(wb.sheets[si], RemoveChar(formula, "$"))
  ELSE literal(StripChar(Strip(formula), "\""))

\* formula[1:] if formula.startswith("=")
drop_equals(formula) == IF StartsWith(formula, "=") THEN Tail(formula) ELSE formula

\* the body of the loop of get_dropdown_values for the rule dv that matched
resolve_rule(wb, si, dv) ==
  IF dv.formula1 = None \/ dv.formula1.s = <<>> THEN <<>>
  ELSE classify(wb, si, drop_equals(Strip(dv.formula1.s)))

\* the loop running on to the last rule whose sqref contains the cell
last_match(validations, cell) ==
  IF \E i \in 1..Len(validations) : cell_in_sqref(cell, validations[i].sqref)
  THEN CHOOSE i \in 1..Len(validations) :
         /\ cell_in_sqref(cell, validations[i].sqref)
         /\ \A j \in (i + 1)..Len(validations) : ~cell_in_sqref(cell, validations[j].sqref)
  ELSE 0

\* the rule the loop stops at: the first one whose sqref contains the cell
first_match(validations, cell) ==
  IF \E i \in 1..Len(validations) : cell_in_sqref(cell, validations[i].sqref)
  THEN CHOOSE i \in 1..Len(validations) :
         /\ cell_in_sqref(cell, validations[i].sqref)
         /\ \A j \in 1..(i - 1) : ~cell_in_sqref(cell, validations[j].sqref)
  ELSE 0

\* the result for the rule number m that the loop stops at (0: it runs out)
dropdown_of(wb, si, m) ==
  IF m = 0 THEN <<>> ELSE resolve_rule(wb, si, wb.sheets[si].validations[m])

\* get_dropdown_values(ws, cell), ws being sheet number si of workbook wb
get_dropdown_values(wb, si, cell) ==
  IF Len(wb.sheets[si].validations) = 0 THEN <<>>
  ELSE dropdown_of(wb, si, first_match(wb.sheets[si].validations, cell))

(* ------------------------------------------------------------------ *)
(* State                                                               *)
(* ------------------------------------------------------------------ *)

\* One call of the resolver: which function is called, its arguments, and
\* what it returned (Pending until it has returned).
VARIABLES r_call, r_wb, r_cell, r_range, r_result

resolver_vars == <<r_call, r_wb, r_cell, r_range, r_result>>

Pending == [done |-> FALSE, v |-> <<>>]

Returned(v) == [done |-> TRUE, v |-> v]

\* The files: the master template (interface.xlsx) and the scratch copy
\* (interface_runtime.xlsx).
VARIABLES template, scratch

\* The form: the cache of dropdown lists, the seven fields, the state of the
\* two dependent comboboxes and the four result displays.
VARIABLES dropdown_cache,
          contribuinte_var, preco_var, quantidade_var, pagamento_var,
          bandeira_var, parcelas_var, estado_var,
          bandeira_state, parcelas_state,
          frete_var, default_var, total_var, valor_unit_var

\* History: the number of Calculate invocations so far, what the last one
\* met (template missing, dependent fields disabled), and for each display
\* the invocation that set it (0: the construction of the form).
VARIABLES calc_count, last_calc, results_from

file_vars == <<template, scratch>>

field_vars == <<contribuinte_var, preco_var, quantidade_var, pagamento_var,
                bandeira_var, parcelas_var, estado_var>>

combo_vars == <<bandeira_state, parcelas_state>>

result_vars == <<frete_var, default_var, total_var, valor_unit_var, results_from>>

app_vars == <<file_vars, dropdown_cache, field_vars, combo_vars, result_vars,
              calc_count, last_calc>>

vars == <<resolver_vars, app_vars>>

(* ------------------------------------------------------------------ *)
(* Inputs of the resolver                                              *)
(* ------------------------------------------------------------------ *)

Rng(c1, r1, c2, r2) == [min_col |-> c1, min_row |-> r1, max_col |-> c2, max_row |-> r2]

\* cell coordinates, <<row, column>>
B3 == <<3, 2>>
B4 == <<4, 2>>
B5 == <<5, 2>>
B6 == <<6, 2>>
B7 == <<7, 2>>
B8 == <<8, 2>>
B9 == <<9, 2>>
B10 == <<10, 2>>
B14 == <<14, 2>>
B15 == <<15, 2>>
I4 == <<4, 9>>

sX == <<"X">>
sY == <<"Y">>
sL == <<"L">>
sS == <<"S">>

\* the values a list cell holds in the enumerated sheets
GridValues == {None, Str(sX), IntVal(7)}

\* a loaded sheet from all: coordinate -> value, the None entries left out
SheetOf(all) ==
  [cells |-> [k \in {k \in DOMAIN all : all[k] # None} |-> all[k]], validations |-> <<>>]

\* sheets whose cells A1, B1, A2 vary and whose B2 is "Y"
GridSheets ==
  {SheetOf((<<1, 1>> :> a) @@ (<<1, 2>> :> b) @@ (<<2, 1>> :> c) @@ (<<2, 2>> :> Str(sY))) :
     a \in GridValues, b \in GridValues, c \in GridValues}

\* the list sheet "L": P, Q in A1:A2 and R in B1
ListSheet ==
  [cells |-> (<<1, 1>> :> Str(<<"P">>)) @@ (<<2, 1>> :> Str(<<"Q">>))
             @@ (<<1, 2>> :> Str(<<"R">>)),
   validations |-> <<>>]

\* the sheet that owns the rules: X, 7 in A1:A2 and Y in B2
OwnerSheet ==
  [cells |-> (<<1, 1>> :> Str(sX)) @@ (<<2, 1>> :> IntVal(7)) @@ (<<2, 2>> :> Str(sY)),
   validations |-> <<>>]

\* range strings: a corner, two corners around ":", and strings no grammar accepts
Corners == SeqsUpTo({"A", "B", "1", "2"}, MaxCornerLen)

RangeStrings ==
  Corners
  \cup {a \o <<":">> \o b : a \in Corners, b \in Corners}
  \cup {<<"A", "1", " ">>, <<"A", "1", ":", "A", "2", ":">>, <<"A", "!", "1">>,
        <<"A", "B", "A", "B", "1">>, <<"$", "A", "$", "1", ":", "$", "B", "$", "2">>}

\* inline-list formulas, the spec's "A,B,C" among them
ListFormulas ==
  SeqsUpTo({"A", "B", ",", "\"", " "}, MaxListLen)
  \cup {<<"\"", "A", ",", "B", ",", "C", "\"">>,
        <<"=", "\"", "A", ",", "B", "\"">>,
        <<"$", "A", ",", "B">>, <<"A", ",", "B", ":">>}

\* cross-sheet and same-sheet formulas
SheetParts ==
  {sL, <<"'", "L", "'">>, <<" ", "L", " ">>, <<"'", " ", "L", "'">>, <<"l">>,
   <<"Q">>, <<"'">>, <<>>, sS, <<"'", "M", " ", "N", "'">>}

RangeParts ==
  {<<>>, <<"A", "1", ":", "A", "2">>, <<"$", "A", "$", "1", ":", "$", "A", "$", "2">>,
   <<"A", "1">>, <<"A", "1", ":", "B">>, <<"A", "!", "1">>, <<"B", "1", ":", "B", "2">>,
   <<"A", "1", ",", "A", "2">>}

CrossFormulas ==
  {pre \o sp \o <<"!">> \o rp : pre \in {<<>>, <<"=">>}, sp \in SheetParts, rp \in RangeParts}

\* workbooks with the owner sheet "S" first and active
BookWith(names, sheets, rules) ==
  [sheetnames |-> names,
   active     |-> 1,
   sheets     |-> [i \in 1..Len(sheets) |->
                     IF i = 1 THEN [sheets[1] EXCEPT !.validations = rules] ELSE sheets[i]]]

Rule(sqref, formula1) == [sqref |-> sqref, formula1 |-> formula1]

BooksFor(rules) ==
  {BookWith(<<sS, sL>>, <<OwnerSheet, ListSheet>>, rules),
   BookWith(<<sS>>, <<OwnerSheet>>, rules),
   BookWith(<<sS, <<"M", " ", "N">>>>, <<OwnerSheet, ListSheet>>, rules)}

\* rules that may overlap on B3
OverlapRules ==
  {Rule(sq, f) :
     sq \in {<<Rng(2, 3, 2, 3)>>, <<Rng(2, 7, 2, 7)>>, <<Rng(1, 1, 3, 5)>>,
             <<Rng(2, 7, 2, 7), Rng(2, 3, 2, 3)>>},
     f \in {None, Str(<<>>), Str(<<"A", ",", "B">>), Str(sX),
            Str(<<"A", "1", ":", "A", "2">>)}}

RuleLists == UNION {[1..k -> OverlapRules] : k \in 0..MaxRules}

(* ------------------------------------------------------------------ *)
(* Files and the workbook operations of the form                       *)
(* ------------------------------------------------------------------ *)

NoFile == [exists |-> FALSE]

File(wb) == [exists |-> TRUE, wb |-> wb]

\* shutil.copyfile with the destination opened before the source is found missing
copyfile_creates_first(src, dst) ==
  IF src.exists THEN [raised |-> FALSE, dst |-> src]
  ELSE [raised |-> TRUE,
        dst    |-> File([sheetnames |-> <<>>, active |-> 1, sheets |-> <<>>])]

\* shutil.copyfile(src, dst): the source is opened first, so a missing source
\* raises FileNotFoundError before the destination is touched
copyfile(src, dst) ==
  IF src.exists THEN [raised |-> FALSE, dst |-> src]
  ELSE [raised |-> TRUE, dst |-> dst]

\* cell.value = v: text that starts with "=" and is longer than that is a formula
bind_value(v) ==
  IF v.t = "str" /\ Len(v.s) > 1 /\ v.s[1] = "=" THEN FormulaVal(v.s) ELSE v

\* ws[k] = v on a loaded sheet
set_cell(ws, k, v) ==
  [ws EXCEPT !.cells = [x \in DOMAIN ws.cells \cup {k} |->
                          IF x = k THEN bind_value(v) ELSE ws.cells[x]]]

\* calculate leaving out the two cells of the disabled comboboxes
write_inputs_enabled_only(ws, fields) ==
  set_cell(set_cell(set_cell(set_cell(set_cell(ws,
    B3, Str(fields.contribuinte)),
    B4, parse_float(fields.preco)),
    B5, parse_int(fields.quantidade)),
    B7, Str(fields.pagamento)),
    B10, Str(fields.estado))

\* the seven assignments of calculate; fields holds what the seven
\* variables return from get()
write_inputs(ws, fields) ==
  set_cell(set_cell(set_cell(set_cell(set_cell(set_cell(set_cell(ws,
    B3, Str(fields.contribuinte)),
    B4, parse_float(fields.preco)),
    B5, parse_int(fields.quantidade)),
    B7, Str(fields.pagamento)),
    B8, Str(fields.bandeira)),
    B9, Str(fields.parcelas)),
    B10, Str(fields.estado))

\* what wb.save stores for a cell: a formula goes without any value, the
\* writer has no result for it; None and the empty text leave the cell empty
SaveCell(v) == IF v.t = "formula" THEN [f |-> Str(v.s), v |-> None] ELSE Const(v)

SaveSheet(ws) ==
  [cells       |-> [k \in {k \in DOMAIN ws.cells :
                             ws.cells[k] # None /\ ws.cells[k] # Str(<<>>)}
                      |-> SaveCell(ws.cells[k])],
   validations |-> ws.validations]

\* wb.save(path) of a loaded workbook
save_workbook(wb) ==
  [sheetnames |-> wb.sheetnames,
   active     |-> wb.active,
   sheets     |-> [i \in DOMAIN wb.sheets |-> SaveSheet(wb.sheets[i])]]

\* calculate from load_workbook(runtime, data_only=False) to wb.save
with_inputs(wb, fields) ==
  [wb EXCEPT !.sheets = [wb.sheets EXCEPT ![wb.active] =
                           write_inputs(wb.sheets[wb.active], fields)]]

scratch_after(copied, fields) ==
  File(save_workbook(with_inputs(load_workbook(copied.wb, FALSE), fields)))

\* the read-back with B6 recomputed from the price just written
result_cell_formula_evaluated(file, k) ==
  IF k = B6 THEN CellValue(load_workbook(file.wb, TRUE).sheets[file.wb.active], B4)
  ELSE CellValue(load_workbook(file.wb, TRUE).sheets[file.wb.active], k)

\* ws_result[k].value with wb_result = load_workbook(runtime, data_only=True)
result_cell(file, k) == CellValue(load_workbook(file.wb, TRUE).sheets[file.wb.active], k)

(* ------------------------------------------------------------------ *)
(* The form                                                            *)
(* ------------------------------------------------------------------ *)

Keys == {"contribuinte", "pagamento", "bandeira", "parcelas", "estado"}

\* the mapping of _load_dropdowns
KeyCell(key) ==
  CASE key = "contribuinte" -> B3
    [] key = "pagamento"    -> B7
    [] key = "bandeira"     -> B8
    [] key = "parcelas"     -> B9
    [] key = "estado"       -> B10

dropdowns_of(wb) == [key \in Keys |-> get_dropdown_values(wb, wb.active, KeyCell(key))]

\* _load_dropdowns: the cache stays empty when the template is missing
load_dropdowns(file) ==
  IF ~file.exists THEN <<>> ELSE dropdowns_of(load_workbook(file.wb, FALSE))

\* self.dropdown_cache.get(key, [])
cache_get(cache, key) == IF key \in DOMAIN cache THEN cache[key] ELSE <<>>

\* combo["values"] as _add_combo sets it
combo_values(cache, key) ==
  IF cache_get(cache, key) # <<>> THEN cache_get(cache, key) ELSE <<<<>>>>

\* the value _add_combo gives the variable
first_value(cache, key) == combo_values(cache, key)[1]

sVista == <<"v", "i", "s", "t", "a">>

\* _update_pagamento_state comparing without lower()
pagamento_state_case_sensitive(pagamento) ==
  IF Contains(pagamento, sVista) THEN "disabled" ELSE "readonly"

\* _update_pagamento_state: the state both comboboxes are configured to
pagamento_state(pagamento) ==
  IF Contains(StrLower(pagamento), sVista) THEN "disabled" ELSE "readonly"

Displays == {"frete", "default", "total", "valor_unit"}

\* _set_results leaving the total display as it was
set_results_but_total(frete, default_val, total_cliente, valor_unit) ==
  /\ frete_var' = format_brl(frete)
  /\ default_var' = format_brl(default_val)
  /\ total_var' = total_var
  /\ valor_unit_var' = format_brl(valor_unit)
  /\ results_from' = [d \in Displays |->
                        IF d = "total" THEN results_from[d] ELSE calc_count']

\* _set_results, called by invocation number calc_count' of calculate
set_results(frete, default_val, total_cliente, valor_unit) ==
  /\ frete_var' = format_brl(frete)
  /\ default_var' = format_brl(default_val)
  /\ total_var' = format_brl(total_cliente)
  /\ valor_unit_var' = format_brl(valor_unit)
  /\ results_from' = [d \in Displays |-> calc_count']

(* ------------------------------------------------------------------ *)
(* The templates and the texts a user types                            *)
(* ------------------------------------------------------------------ *)

sAVista == <<"A", " ", "V", "i", "s", "t", "a">>
sCartao == <<"C", "a", "r", "t", "a", "o">>
sRevista == <<"R", "E", "V", "I", "S", "T", "A">>
sVist == <<"V", "i", "s", "t">>

\* the budget sheet of the first template: lists for payment method
\* (cross-sheet), card brand (same-sheet), installments (inline) and state
\* (one literal), none for the payer; formulas with stored results in B6,
\* B15 and I4, a number in B14
BudgetSheet1 ==
  [cells |-> (B3 :> Const(Str(<<"P", "J">>)))
             @@ (B4 :> Const(Num(500))) @@ (B5 :> Const(IntVal(2)))
             @@ (B6 :> Formula(<<"=", "B", "4", "*", "B", "5">>, Num(1000)))
             @@ (B14 :> Const(Num(250)))
             @@ (B15 :> Formula(<<"=", "B", "6", "+", "B", "1", "4">>, Num(1250)))
             @@ (I4 :> Formula(<<"=", "B", "1", "5", "/", "B", "5">>, Num(123456)))
             @@ (<<1, 8>> :> Const(Str(<<"V", "i", "s", "a">>)))
             @@ (<<2, 8>> :> Const(Str(<<"E", "l", "o">>))),
   validations |->
     <<Rule(<<Rng(2, 7, 2, 7)>>,
            Str(<<"=", "'", "L", "'", "!", "$", "A", "$", "1", ":", "$", "A", "$", "2">>)),
       Rule(<<Rng(2, 8, 2, 8)>>, Str(<<"$", "H", "$", "1", ":", "$", "H", "$", "2">>)),
       Rule(<<Rng(2, 9, 2, 9)>>, Str(<<"\"", "1", ",", "2", "\"">>)),
       Rule(<<Rng(2, 10, 2, 10)>>, Str(<<"S", "P">>))>>]

ListSheet1 ==
  [cells |-> (<<1, 1>> :> Const(Str(sAVista))) @@ (<<2, 1>> :> Const(Str(sCartao))),
   validations |-> <<>>]

Template1 ==
  File([sheetnames |-> <<sS, sL>>, active |-> 1, sheets |-> <<BudgetSheet1, ListSheet1>>])

\* the second template: lists for payer, payment method and state only, and
\* outputs that are numbers and texts, not formulas
BudgetSheet2 ==
  [cells |-> (B6 :> Const(Num(5)))
             @@ (B14 :> Const(Str(<<"a", "b", "c">>)))
             @@ (B15 :> Const(Str(<<"1", "2">>)))
             @@ (I4 :> Const(IntVal(3))),
   validations |->
     <<Rule(<<Rng(2, 3, 2, 3)>>, Str(<<"\"", "P", "F", ",", "P", "J", "\"">>)),
       Rule(<<Rng(2, 7, 2, 7)>>,
            Str(<<"R", "E", "V", "I", "S", "T", "A", ",", "V", "i", "s", "t">>)),
       Rule(<<Rng(2, 10, 2, 10)>>, Str(<<"\"", "S", "P", ",", "R", "J", "\"">>))>>]

Template2 == File([sheetnames |-> <<sS>>, active |-> 1, sheets |-> <<BudgetSheet2>>])

Templates == {Template1, Template2}

PrecoTexts == {<<"1", ".", "2", "3", "4", ",", "5">>}

QuantidadeTexts == {<<"1", "2">>, <<" ", "7", "x">>}

(* ------------------------------------------------------------------ *)
(* The form after construction, and its operations                     *)
(* ------------------------------------------------------------------ *)

\* OrcamentoApp.__init__: _load_dropdowns, then _build_ui, which ends with
\* _update_pagamento_state
InitApp ==
  /\ template \in Templates \cup {NoFile}
  /\ scratch = NoFile
  /\ dropdown_cache = load_dropdowns(template)
  /\ contribuinte_var = first_value(dropdown_cache, "contribuinte")
  /\ preco_var = <<>>
  /\ quantidade_var = <<>>
  /\ pagamento_var = first_value(dropdown_cache, "pagamento")
  /\ bandeira_var = first_value(dropdown_cache, "bandeira")
  /\ parcelas_var = first_value(dropdown_cache, "parcelas")
  /\ estado_var = first_value(dropdown_cache, "estado")
  /\ frete_var = format_brl(IntVal(0))
  /\ default_var = format_brl(IntVal(0))
  /\ total_var = format_brl(IntVal(0))
  /\ valor_unit_var = format_brl(IntVal(0))
  /\ bandeira_state = pagamento_state(pagamento_var)
  /\ parcelas_state = pagamento_state(pagamento_var)
  /\ calc_count = 0
  /\ last_calc = [missing |-> FALSE, disabled |-> FALSE]
  /\ results_from = [d \in Displays |-> 0]

Seq2Set(s) == {s[i] : i \in 1..Len(s)}

\* the user picks a value of a combobox that is not the payment method
SelectContribuinte ==
  /\ \E v \in Seq2Set(combo_values(dropdown_cache, "contribuinte")) : contribuinte_var' = v
  /\ UNCHANGED <<file_vars, dropdown_cache, preco_var, quantidade_var, pagamento_var,
                 bandeira_var, parcelas_var, estado_var, combo_vars, result_vars,
                 calc_count, last_calc, resolver_vars>>

SelectEstado ==
  /\ \E v \in Seq2Set(combo_values(dropdown_cache, "estado")) : estado_var' = v
  /\ UNCHANGED <<file_vars, dropdown_cache, contribuinte_var, preco_var, quantidade_var,
                 pagamento_var, bandeira_var, parcelas_var, combo_vars, result_vars,
                 calc_count, last_calc, resolver_vars>>

\* a disabled combobox takes no selection
SelectBandeira ==
  /\ bandeira_state = "readonly"
  /\ \E v \in Seq2Set(combo_values(dropdown_cache, "bandeira")) : bandeira_var' = v
  /\ UNCHANGED <<file_vars, dropdown_cache, contribuinte_var, preco_var, quantidade_var,
                 pagamento_var, parcelas_var, estado_var, combo_vars, result_vars,
                 calc_count, last_calc, resolver_vars>>

SelectParcelas ==
  /\ parcelas_state = "readonly"
  /\ \E v \in Seq2Set(combo_values(dropdown_cache, "parcelas")) : parcelas_var' = v
  /\ UNCHANGED <<file_vars, dropdown_cache, contribuinte_var, preco_var, quantidade_var,
                 pagamento_var, bandeira_var, estado_var, combo_vars, result_vars,
                 calc_count, last_calc, resolver_vars>>

\* the user picks a payment method: <<ComboboxSelected>> runs
\* _update_pagamento_state
SelectPagamento ==
  /\ \E v \in Seq2Set(combo_values(dropdown_cache, "pagamento")) : pagamento_var' = v
  /\ bandeira_state' = pagamento_state(pagamento_var')
  /\ parcelas_state' = pagamento_state(pagamento_var')
  /\ UNCHANGED <<file_vars, dropdown_cache, contribuinte_var, preco_var, quantidade_var,
                 bandeira_var, parcelas_var, estado_var, result_vars, calc_count, last_calc, resolver_vars>>

\* the user types into an entry
EditPreco ==
  /\ \E text \in PrecoTexts : preco_var' = text
  /\ UNCHANGED <<file_vars, dropdown_cache, contribuinte_var, quantidade_var, pagamento_var,
                 bandeira_var, parcelas_var, estado_var, combo_vars, result_vars,
                 calc_count, last_calc, resolver_vars>>

EditQuantidade ==
  /\ \E text \in QuantidadeTexts : quantidade_var' = text
  /\ UNCHANGED <<file_vars, dropdown_cache, contribuinte_var, preco_var, pagamento_var,
                 bandeira_var, parcelas_var, estado_var, combo_vars, result_vars,
                 calc_count, last_calc, resolver_vars>>

\* what the seven variables hold
Fields ==
  [contribuinte |-> contribuinte_var, preco |-> preco_var, quantidade |-> quantidade_var,
   pagamento |-> pagamento_var, bandeira |-> bandeira_var, parcelas |-> parcelas_var,
   estado |-> estado_var]

\* calculate, with the outcome cp of its copyfile
calculate_after(cp) ==
  IF cp.raised
  THEN /\ scratch' = cp.dst
       /\ set_results(None, None, None, None)
  ELSE /\ scratch' = scratch_after(cp.dst, Fields)
       /\ set_results(result_cell(scratch', B6), result_cell(scratch', B14),
                      result_cell(scratch', B15), result_cell(scratch', I4))

\* the Calcular button
Calculate ==
  /\ calc_count < MaxCalc
  /\ calc_count' = calc_count + 1
  /\ last_calc' = [missing |-> ~template.exists, disabled |-> bandeira_state = "disabled"]
  /\ calculate_after(copyfile(template, scratch))
  /\ UNCHANGED <<template, dropdown_cache, field_vars, combo_vars, resolver_vars>>

\* outside the program: the template file is deleted, or put (back) in place
RemoveTemplate ==
  /\ template.exists
  /\ template' = NoFile
  /\ UNCHANGED <<scratch, dropdown_cache, field_vars, combo_vars, result_vars,
                 calc_count, last_calc, resolver_vars>>

InstallTemplate ==
  /\ \E f \in Templates : f # template /\ template' = f
  /\ UNCHANGED <<scratch, dropdown_cache, field_vars, combo_vars, result_vars,
                 calc_count, last_calc, resolver_vars>>

\* no call of the resolver on its own is in progress
ResolverIdle ==
  /\ r_call = "none"
  /\ r_wb = [sheetnames |-> <<>>, active |-> 1, sheets |-> <<>>]
  /\ r_cell = B3
  /\ r_range = <<>>
  /\ r_result = Pending

Init == InitApp /\ ResolverIdle

Next ==
  \/ SelectContribuinte
  \/ SelectEstado
  \/ SelectBandeira
  \/ SelectParcelas
  \/ SelectPagamento
  \/ EditPreco
  \/ EditQuantidade
  \/ Calculate
  \/ RemoveTemplate
  \/ InstallTemplate

Spec == Init /\ [][Next]_vars

(* ------------------------------------------------------------------ *)
(* The resolver called on its own                                      *)
(* ------------------------------------------------------------------ *)

InitDropdown ==
  /\ r_call = "get_dropdown_values"
  /\ \/ /\ \E rules \in RuleLists :
             r_wb = BookWith(<<sS, sL>>, <<OwnerSheet, ListSheet>>, rules)
        /\ r_cell \in {B3, B7, B9}
     \/ /\ \E f \in ListFormulas \cup {<<"=">> \o g : g \in ListFormulas} :
             r_wb = BookWith(<<sS, sL>>, <<OwnerSheet, ListSheet>>,
                             <<Rule(<<Rng(2, 3, 2, 3)>>, Str(f))>>)
        /\ r_cell = B3
     \/ /\ \E f \in CrossFormulas :
             r_wb \in BooksFor(<<Rule(<<Rng(2, 3, 2, 3)>>, Str(f))>>)
        /\ r_cell = B3
  /\ r_range = <<>>
  /\ r_result = Pending

InitRange ==
  /\ r_call = "values_from_range"
  /\ \E sh \in GridSheets : r_wb = BookWith(<<sS>>, <<sh>>, <<>>)
  /\ r_cell = B3
  /\ r_range \in RangeStrings
  /\ r_result = Pending

\* get_dropdown_values(ws, cell) returns; ws is the active sheet, as in _load_dropdowns
Resolve ==
  /\ r_call = "get_dropdown_values"
  /\ ~r_result.done
  /\ r_result' = Returned(get_dropdown_values(r_wb, r_wb.active, r_cell))
  /\ UNCHANGED <<r_call, r_wb, r_cell, r_range, app_vars>>

\* values_from_range(ws, cell_range) returns
ResolveRange ==
  /\ r_call = "values_from_range"
  /\ ~r_result.done
  /\ r_result' = Returned(values_from_range(r_wb.sheets[r_wb.active], r_range))
  /\ UNCHANGED <<r_call, r_wb, r_cell, r_range, app_vars>>

\* no form is open
AppIdle ==
  /\ template = NoFile
  /\ scratch = NoFile
  /\ dropdown_cache = <<>>
  /\ contribuinte_var = <<>> /\ preco_var = <<>> /\ quantidade_var = <<>>
  /\ pagamento_var = <<>> /\ bandeira_var = <<>> /\ parcelas_var = <<>>
  /\ estado_var = <<>>
  /\ bandeira_state = "readonly" /\ parcelas_state = "readonly"
  /\ frete_var = <<>> /\ default_var = <<>> /\ total_var = <<>> /\ valor_unit_var = <<>>
  /\ results_from = [d \in Displays |-> 0]
  /\ calc_count = 0
  /\ last_calc = [missing |-> FALSE, disabled |-> FALSE]

InitResolver == (InitDropdown \/ InitRange) /\ AppIdle

NextResolver == Resolve \/ ResolveRange

SpecResolver == InitResolver /\ [][NextResolver]_vars

(* ------------------------------------------------------------------ *)
(* Properties of the resolver                                          *)
(* ------------------------------------------------------------------ *)

DropdownReturned == r_call = "get_dropdown_values" /\ r_result.done

RangeReturned == r_call = "values_from_range" /\ r_result.done

OwnerRules == r_wb.sheets[r_wb.active].validations

\* the rules whose range set contains the target cell
Hits == {i \in 1..Len(OwnerRules) :
           \E j \in 1..Len(OwnerRules[i].sqref) : InRange(r_cell, OwnerRules[i].sqref[j])}

SetMin(S) == CHOOSE x \in S : \A y \in S : x <= y

NoFormula(rule) == rule.formula1 = None \/ rule.formula1 = Str(<<>>)

\* the workbook of the call with rule alone on its owner sheet
WithOnly(rule) ==
  [r_wb EXCEPT !.sheets = [r_wb.sheets EXCEPT ![r_wb.active] =
                             [r_wb.sheets[r_wb.active] EXCEPT !.validations = <<rule>>]]]

\* C5: the result is the one the first rule containing the cell gives alone:
\* empty when that rule has no formula, whatever later rules contain the
\* cell, and empty when no rule contains the cell.
C5_FirstRuleDecides ==
  DropdownReturned =>
    IF Hits = {} THEN r_result.v = <<>>
    ELSE /\ NoFormula(OwnerRules[SetMin(Hits)]) => r_result.v = <<>>
         /\ r_result.v = get_dropdown_values(WithOnly(OwnerRules[SetMin(Hits)]),
                                             r_wb.active, r_cell)

\* two rules contain B3, the first without a formula, the second with one
C5_Witness ==
  /\ DropdownReturned
  /\ r_cell = B3
  /\ Len(OwnerRules) = 2
  /\ Hits = {1, 2}
  /\ OwnerRules[1].formula1 = None
  /\ OwnerRules[2].formula1 = Str(<<"A", ",", "B">>)
  /\ r_result.v = <<>>

\* the formula of the single rule of the call, trimmed, its leading "=" removed
TheFormula ==
  LET raw == Strip(OwnerRules[1].formula1.s)
  IN  IF Len(raw) >= 1 /\ raw[1] = "=" THEN SubSeq(raw, 2, Len(raw)) ELSE raw

SingleRuleCall ==
  /\ DropdownReturned
  /\ Len(OwnerRules) = 1
  /\ Hits = {1}
  /\ ~NoFormula(OwnerRules[1])

IsInlineList(f) ==
  /\ \E i \in 1..Len(f) : f[i] = ","
  /\ \A i \in 1..Len(f) : f[i] # "!" /\ f[i] # ":"
  /\ ~(Len(f) >= 1 /\ f[1] = "$")

\* the tokens of s between commas, trimmed, the empty ones dropped, in order
Tokens(s) ==
  LET toks == Split(s, ",")
      keep == SelectSeq([i \in 1..Len(toks) |-> Strip(toks[i])], LAMBDA x : x # <<>>)
  IN  keep

\* one layer of surrounding double quotes removed
OneLayerUnquoted(s) ==
  IF Len(s) >= 2 /\ s[1] = "\"" /\ s[Len(s)] = "\"" THEN SubSeq(s, 2, Len(s) - 1) ELSE s

\* every leading and every trailing double quote removed
RECURSIVE AllQuotesStripped(_)
AllQuotesStripped(s) ==
  IF s # <<>> /\ s[1] = "\"" THEN AllQuotesStripped(Tail(s))
  ELSE IF s # <<>> /\ s[Len(s)] = "\"" THEN AllQuotesStripped(SubSeq(s, 1, Len(s) - 1))
  ELSE s

\* C6 as stated: an inline list is the tokens of the formula with one layer
\* of surrounding double quotes removed.
C6_OneLayerOfQuotes ==
  (SingleRuleCall /\ IsInlineList(TheFormula)) =>
    r_result.v = Tokens(OneLayerUnquoted(Strip(TheFormula)))

\* C6 amended: an inline list is the tokens of the formula with every
\* leading and every trailing double quote removed, whether or not the
\* quotes pair up; "A,B,C" in quotes yields A, B, C.
C6_AllQuotesStripped ==
  (SingleRuleCall /\ IsInlineList(TheFormula)) =>
    r_result.v = Tokens(AllQuotesStripped(Strip(TheFormula)))

\* the spec's example: the rule "A,B,C" on B3
C6_Witness ==
  /\ SingleRuleCall
  /\ r_cell = B3
  /\ TheFormula = <<"\"", "A", ",", "B", ",", "C", "\"">>
  /\ r_result.v = <<<<"A">>, <<"B">>, <<"C">>>>

HasBang(f) == \E i \in 1..Len(f) : f[i] = "!"

FirstBang(f) == SetMin({i \in 1..Len(f) : f[i] = "!"})

\* the sheet name of a cross-sheet formula: trimmed, then without the single
\* quotes that wrap it
NamedSheet(f) ==
  LET n == Strip(SubSeq(f, 1, FirstBang(f) - 1))
  IN  IF Len(n) >= 1 /\ n[1] = "'" /\ n[Len(n)] = "'"
      THEN (IF Len(n) >= 2 THEN SubSeq(n, 2, Len(n) - 1) ELSE <<>>)
      ELSE n

\* the range of a cross-sheet formula without its "$" anchors
NamedRange(f) ==
  SelectSeq(SubSeq(f, FirstBang(f) + 1, Len(f)), LAMBDA c : c # "$")

SheetsNamed(n) == {i \in 1..Len(r_wb.sheetnames) : r_wb.sheetnames[i] = n}

\* C7: a formula with "!" resolves its range, "$" removed, on the sheet named
\* before the first "!" (trimmed, wrapping single quotes removed) when the
\* workbook has a sheet of exactly that name, and on the rule's own sheet
\* otherwise.
C7_CrossSheet ==
  (SingleRuleCall /\ HasBang(TheFormula)) =>
    r_result.v =
      values_from_range(
        IF SheetsNamed(NamedSheet(TheFormula)) # {}
        THEN r_wb.sheets[SetMin(SheetsNamed(NamedSheet(TheFormula)))]
        ELSE r_wb.sheets[r_wb.active],
        NamedRange(TheFormula))

\* the spec's example: sheet L is unknown, A1:A2 is read from the owner sheet
C7_Witness ==
  /\ SingleRuleCall
  /\ r_wb.sheetnames = <<sS>>
  /\ TheFormula = <<"L", "!", "A", "1", ":", "A", "2">>
  /\ r_result.v = <<sX, <<"7">>>>

\* a column (1 to 3 letters), a row (digits, not 0), a cell
IsColumn(s) == Len(s) \in 1..3 /\ \A i \in 1..Len(s) : IsLetter(s[i])

IsRow(s) == Len(s) >= 1 /\ AllDigits(s) /\ DigitsVal(s) >= 1

IsCell(s) == \E k \in 1..(Len(s) - 1) : IsColumn(SubSeq(s, 1, k)) /\ IsRow(SubSeq(s, k + 1, Len(s)))

Before(s, i) == SubSeq(s, 1, i - 1)

After(s, i) == SubSeq(s, i + 1, Len(s))

\* a cell or a rectangle between two cells
IsRectangle(s) ==
  \/ IsCell(s)
  \/ \E i \in 1..Len(s) : s[i] = ":" /\ IsCell(Before(s, i)) /\ IsCell(After(s, i))

\* whole columns or whole rows
IsBand(s) ==
  \E i \in 1..Len(s) :
    /\ s[i] = ":"
    /\ \/ IsColumn(Before(s, i)) /\ IsColumn(After(s, i))
       \/ IsRow(Before(s, i)) /\ IsRow(After(s, i))

Unanchored(s) == SelectSeq(s, LAMBDA c : c # "$")

Malformed(s) == ~IsRectangle(Unanchored(s)) /\ ~IsBand(Unanchored(s))

\* the cell text split into its column number and row number
CellColumn(s) == column_index_from_string(SubSeq(s, 1, LetterRun(s, 1)))

CellRow(s) == DigitsVal(SubSeq(s, LetterRun(s, 1) + 1, Len(s)))

FirstCell(s) == IF \E i \in 1..Len(s) : s[i] = ":" THEN Before(s, SetMin({i \in 1..Len(s) : s[i] = ":"})) ELSE s

LastCell(s) == IF \E i \in 1..Len(s) : s[i] = ":" THEN After(s, SetMin({i \in 1..Len(s) : s[i] = ":"})) ELSE s

\* the text of the non-empty cells of rows r1..r2 and columns c1..c2 of ws,
\* row after row, each row from left to right
RECURSIVE RowMajorText(_, _, _, _, _, _)
RowMajorText(ws, r, c, r2, c1, c2) ==
  IF r > r2 \/ c1 > c2 THEN <<>>
  ELSE IF c > c2 THEN RowMajorText(ws, r + 1, c1, r2, c1, c2)
  ELSE (IF <<r, c>> \in DOMAIN ws.cells THEN <<ValueStr(ws.cells[<<r, c>>])>> ELSE <<>>)
       \o RowMajorText(ws, r, c + 1, r2, c1, c2)

RectangleText(ws, s) ==
  RowMajorText(ws, CellRow(FirstCell(s)), CellColumn(FirstCell(s)),
               CellRow(LastCell(s)), CellColumn(FirstCell(s)), CellColumn(LastCell(s)))

\* C8, the rectangles: the text of every non-empty cell, row by row,
\* duplicates kept, empty cells skipped.
C8_RectangleRowMajor ==
  (RangeReturned /\ IsRectangle(Unanchored(r_range))) =>
    r_result.v = RectangleText(r_wb.sheets[r_wb.active], Unanchored(r_range))

\* C8 as stated: the rectangles as above, and a malformed range string
\* yields the empty sequence.
C8_MalformedIsEmpty ==
  /\ C8_RectangleRowMajor
  /\ (RangeReturned /\ Malformed(r_range)) => r_result.v = <<>>

\* what does hold of the strings that are no range: those range_boundaries
\* rejects yield the empty sequence
C8_RejectedIsEmpty ==
  (RangeReturned /\ ~range_boundaries(r_range).ok) => r_result.v = <<>>

(* ------------------------------------------------------------------ *)
(* Properties of the form                                              *)
(* ------------------------------------------------------------------ *)

\* s contains "vista" in any mix of upper and lower case
IsVista(s) ==
  \E i \in 1..(Len(s) - 4) :
    /\ s[i] \in {"v", "V"}
    /\ s[i + 1] \in {"i", "I"}
    /\ s[i + 2] \in {"s", "S"}
    /\ s[i + 3] \in {"t", "T"}
    /\ s[i + 4] \in {"a", "A"}

\* C1: from construction on, card brand and installments are disabled
\* exactly when the payment method contains "vista" in any case.
C1_VistaDisables ==
  /\ bandeira_state = (IF IsVista(pagamento_var) THEN "disabled" ELSE "readonly")
  /\ parcelas_state = bandeira_state

\* after a Calculate, a payment method with "Vista" picked again: the brand
\* picked while the field was enabled is still there, the field is disabled
C1_Witness ==
  /\ calc_count >= 1
  /\ pagamento_var = sAVista
  /\ bandeira_var = <<"E", "l", "o">>
  /\ bandeira_state = "disabled"
  /\ parcelas_state = "disabled"

Zero == <<"R", "$", " ", "0", ",", "0", "0">>

CalculateStep == calc_count' # calc_count

\* C2: a Calculate that finds no template writes no file and shows
\* "R$ 0,00" four times.
C2_MissingTemplate ==
  [][(CalculateStep /\ ~template.exists) =>
       /\ scratch' = scratch
       /\ template' = template
       /\ frete_var' = Zero /\ default_var' = Zero
       /\ total_var' = Zero /\ valor_unit_var' = Zero]_vars

\* the second Calculate found no template: the scratch file of the first is
\* still there, the displays are back to zero
C2_Witness ==
  /\ calc_count = 2
  /\ last_calc.missing
  /\ scratch.exists
  /\ ~template.exists
  /\ frete_var = Zero /\ default_var = Zero /\ total_var = Zero /\ valor_unit_var = Zero

\* C3: once Calculate has run, the four displays were all set by the
\* latest invocation.
C3_ResultsFromOneCalculate ==
  calc_count >= 1 => \A d \in Displays : results_from[d] = calc_count

\* a second Calculate with the template present and a total that is not zero
C3_Witness ==
  /\ calc_count = 2
  /\ ~last_calc.missing
  /\ \A d \in Displays : results_from[d] = 2
  /\ total_var = <<"R", "$", " ", "1", "2", ",", "0", "0">>
  /\ frete_var = <<"R", "$", " ", "0", ",", "0", "5">>

\* the text a cell of the active sheet of a file holds, formulas kept ("" for
\* an empty cell)
CellText(file, k) ==
  IF k \in DOMAIN file.wb.sheets[file.wb.active].cells
  THEN LET c == file.wb.sheets[file.wb.active].cells[k]
       IN  IF c.f # None THEN c.f.s ELSE IF c.v = None THEN <<>> ELSE ValueStr(c.v)
  ELSE <<>>

\* C4: a step that leaves the two fields disabled leaves their values as
\* they were, and a Calculate with the fields disabled and the template
\* present writes those values to B8 and B9 of the scratch file.
C4_DisabledValuesKept ==
  [][/\ bandeira_state' = "disabled" =>
          (bandeira_var' = bandeira_var /\ parcelas_var' = parcelas_var)
     /\ (CalculateStep /\ template.exists /\ bandeira_state = "disabled") =>
          /\ CellText(scratch', B8) = bandeira_var
          /\ CellText(scratch', B9) = parcelas_var]_vars

\* Calculate ran with the fields disabled and wrote the brand and the
\* installments picked before
C4_Witness ==
  /\ calc_count >= 1
  /\ last_calc.disabled /\ ~last_calc.missing
  /\ bandeira_state = "disabled"
  /\ bandeira_var = <<"E", "l", "o">>
  /\ parcelas_var = <<"2">>
  /\ CellText(scratch, B8) = <<"E", "l", "o">>
  /\ CellText(scratch, B9) = <<"2">>

InputCells == {B3, B4, B5, B7, B8, B9, B10}

\* what a file stores for cell k of sheet i: formula and value
StoredCell(file, i, k) ==
  IF k \in DOMAIN file.wb.sheets[i].cells THEN file.wb.sheets[i].cells[k] ELSE Const(None)

\* the files agree on every sheet and on every cell, but for the input cells
\* of the active sheet
SameButInputs(a, b) ==
  /\ a.wb.sheetnames = b.wb.sheetnames
  /\ a.wb.active = b.wb.active
  /\ \A i \in DOMAIN a.wb.sheets :
       /\ a.wb.sheets[i].validations = b.wb.sheets[i].validations
       /\ \A k \in (DOMAIN a.wb.sheets[i].cells \cup DOMAIN b.wb.sheets[i].cells)
                     \ (IF i = a.wb.active THEN InputCells ELSE {}) :
            StoredCell(a, i, k) = StoredCell(b, i, k)

\* C9 as stated: no step of the form changes the template, and after a
\* Calculate with the template present the scratch file is the template but
\* for the seven input cells, which hold the fields.
C9_OnlyInputCellsDiffer ==
  [][/\ (template' # template) => UNCHANGED <<scratch, calc_count, field_vars>>
     /\ (CalculateStep /\ template.exists) =>
          /\ SameButInputs(scratch', template)
          /\ CellText(scratch', B3) = contribuinte_var
          /\ CellText(scratch', B7) = pagamento_var
          /\ CellText(scratch', B8) = bandeira_var
          /\ CellText(scratch', B9) = parcelas_var
          /\ CellText(scratch', B10) = estado_var]_vars

\* what does hold: the template is never changed by the form, and the
\* scratch file has the template's formulas and constants outside the input
\* cells; only the stored results of formulas are gone
SameFormulas(a, b) ==
  /\ a.wb.sheetnames = b.wb.sheetnames
  /\ \A i \in DOMAIN a.wb.sheets :
       \A k \in (DOMAIN a.wb.sheets[i].cells \cup DOMAIN b.wb.sheets[i].cells)
                  \ (IF i = a.wb.active THEN InputCells ELSE {}) :
         /\ StoredCell(a, i, k).f = StoredCell(b, i, k).f
         /\ StoredCell(b, i, k).f = None => StoredCell(a, i, k) = StoredCell(b, i, k)

C9_FormulasKept ==
  [][/\ (template' # template) => UNCHANGED <<scratch, calc_count, field_vars>>
     /\ (CalculateStep /\ template.exists) =>
          /\ SameFormulas(scratch', template)
          /\ CellText(scratch', B3) = contribuinte_var
          /\ CellText(scratch', B7) = pagamento_var
          /\ CellText(scratch', B8) = bandeira_var
          /\ CellText(scratch', B9) = parcelas_var
          /\ CellText(scratch', B10) = estado_var
          /\ StoredCell(scratch', scratch'.wb.active, B4) = Const(parse_float(preco_var))
          /\ StoredCell(scratch', scratch'.wb.active, B5) = Const(parse_int(quantidade_var))]_vars

\* other values the seven fields could hold
OtherFields ==
  {[contribuinte |-> <<>>, preco |-> <<>>, quantidade |-> <<>>, pagamento |-> <<>>,
    bandeira |-> <<>>, parcelas |-> <<>>, estado |-> <<>>],
   [contribuinte |-> sX, preco |-> <<"9", ",", "9">>, quantidade |-> <<"3">>,
    pagamento |-> sCartao, bandeira |-> sY, parcelas |-> <<"9">>, estado |-> sX]}

\* the four displays a Calculate on template file would show for fields
DisplaysFor(file, fields) ==
  <<format_brl(result_cell(scratch_after(file, fields), B6)),
    format_brl(result_cell(scratch_after(file, fields), B14)),
    format_brl(result_cell(scratch_after(file, fields), B15)),
    format_brl(result_cell(scratch_after(file, fields), I4))>>

\* C10: what a Calculate displays is what it would display on the same
\* template for any other values of the seven fields.
C10_ResultsIgnoreFields ==
  [][(CalculateStep /\ template.exists) =>
       \A other \in OtherFields :
         <<frete_var', default_var', total_var', valor_unit_var'>>
           = DisplaysFor(template, other)]_vars

\* a second Calculate on the second template, with a price typed in
C10_Witness ==
  /\ calc_count = 2
  /\ ~last_calc.missing
  /\ template = Template2
  /\ preco_var = <<"1", ".", "2", "3", "4", ",", "5">>
  /\ StoredCell(scratch, 1, B4) = Const(Num(123450))
  /\ frete_var = <<"R", "$", " ", "0", ",", "0", "5">>
  /\ valor_unit_var = <<"R", "$", " ", "3", ",", "0", "0">>

====
